---- MODULE Spec2Model ----
(***************************************************************************)
(* Vync: the analysis_trigger edge function (pipeline orchestrator) over   *)
(* the videos / video_analyses tables, and the AnalysisView status         *)
(* synchronization client (realtime push + polling).                       *)
(***************************************************************************)
EXTENDS Integers, FiniteSets, Sequences, TLC

VARIABLES
    jobs,        \* table public.videos: id -> row (or absent)
    analyses,    \* table public.video_analyses: set of rows
    inv,         \* the running invocations of the edge function handler
    events,      \* postgres_changes events the database has emitted
    videoIdProp,     \* AnalysisView: the videoIdProp prop
    payloadProp,     \* AnalysisView: the payload prop (AnalysisViewWithConsole state)
    ui,          \* AnalysisView: its React state
    pollRef,     \* AnalysisView: pollRef.current holds a running interval
    earlyPollTimer,   \* AnalysisView: the one-shot early poll is pending
    channelAnalysis,  \* AnalysisView: subscribed to video_analyses changes
    channelVideo,     \* AnalysisView: subscribed to videos changes
    overTime,    \* Date.now() - pollStartTimeRef.current > MAX_POLL_TIMEOUT_MS
    inflight,    \* AnalysisView: requests issued and not yet answered
    parsePc,     \* response parsing: position in the Parse JSON block
    responseText,    \* response parsing: the trimmed text of the first candidate
    jsonStr,     \* response parsing: the text handed to JSON.parse
    parsedJson,  \* response parsing: the object JSON.parse returned
    analysisOut  \* response parsing: analysisData after the field assignments

storeVars == <<jobs, analyses>>
clientVars == <<events, videoIdProp, payloadProp, ui, pollRef, earlyPollTimer, channelAnalysis,
                channelVideo, overTime, inflight>>
parseVars == <<parsePc, responseText, jsonStr, parsedJson, analysisOut>>
vars == <<jobs, analyses, inv, events, videoIdProp, payloadProp, ui, pollRef, earlyPollTimer,
          channelAnalysis, channelVideo, overTime, inflight, parsePc, responseText, jsonStr,
          parsedJson, analysisOut>>

----------------------------------------------------------------------------
(* Bounds *)

\* number of requests the edge function receives in a behaviour (they may
\* overlap or follow one another)
NumInv == 2

\* number of poll rounds (by-id pull, fallback pull, status read) the client
\* has in flight at once; a timer that finds this many waits for an answer
MaxInflight == 2

\* length of the inference response text, in tokens
MaxTextLen == 5
MaxItems == 2

----------------------------------------------------------------------------
(* Store: tables videos and video_analyses *)

VideoIds == {"a", "b"}

\* the columns of video_analyses that carry the analysis
AnalysisFields ==
    {"summary", "thought_trace", "chapters", "key_insights", "timeline_data", "diagram_data"}

\* analysisData as declared: empty summary, empty arrays
EmptyAnalysis ==
    [summary |-> "", thought_trace |-> <<>>, chapters |-> <<>>, key_insights |-> <<>>,
     timeline_data |-> <<>>, diagram_data |-> <<>>]

(* JSON values. A field of the parsed object is [kind, str, items]: its
   typeof / Array.isArray class, its content when a string, its items when an
   array. A scalar is [kind, str, num]. A key absent from an object is absent
   from the DOMAIN of the function that stands for the object. *)
Str(x) == [kind |-> "string", str |-> x, items |-> <<>>]
Arr(xs) == [kind |-> "array", str |-> "", items |-> xs]
Other(kind) == [kind |-> kind, str |-> "", items |-> <<>>]

ScalarUndefined == [kind |-> "undefined", str |-> "", num |-> 0]
ScalarNull == [kind |-> "null", str |-> "", num |-> 0]
ScalarString(x) == [kind |-> "string", str |-> x, num |-> 0]
ScalarNumber(n) == [kind |-> "number", str |-> "", num |-> n]

\* String(v) of JavaScript
String(v) ==
    CASE v.kind = "string" -> v.str
      [] v.kind = "number" -> ToString(v.num)
      [] v.kind = "null" -> "null"
      [] v.kind = "undefined" -> "undefined"
      [] v.kind = "object" -> "[object Object]"

\* an item of a raw key_insights array: a scalar, or an object with the keys
\* it has among timestamp and importance, their values, and its text (kind
\* undefined when the object has no text)
InsightScalar(v) ==
    [kind |-> v.kind, str |-> v.str, num |-> v.num, keys |-> {},
     timestamp |-> 0, importance |-> 0, text |-> ScalarUndefined]
InsightObject(keys, timestamp, importance, text) ==
    [kind |-> "object", str |-> "", num |-> 0, keys |-> keys,
     timestamp |-> timestamp, importance |-> importance, text |-> text]

\* the map callback of key_insights without its first branch
normalizeKeyInsightAsText(item) ==
    [timestamp |-> 0, importance |-> 5, text |-> String(item)]

\* the map callback of key_insights
normalizeKeyInsight(item) ==
    IF item.kind = "object" /\ "timestamp" \in item.keys /\ "importance" \in item.keys
    THEN [timestamp |-> item.timestamp, importance |-> item.importance,
          text |-> IF item.text.kind \in {"undefined", "null"} THEN String(ScalarString(""))
                   ELSE String(item.text)]
    ELSE [timestamp |-> 0, importance |-> 5,
          text |-> IF item.kind = "string" THEN item.str ELSE String(item)]

\* the parsed JSON objects of an inference response that the pipeline is run
\* with: one with every field, one that omits fields
Parsed ==
    {[summary |-> Str("x"), thought_trace |-> Arr(<<"x">>), chapters |-> Arr(<<"x">>),
      key_insights |-> Arr(<<InsightScalar(ScalarString("x"))>>),
      timeline_data |-> Arr(<<[position |-> 50, label |-> "x", type |-> "primary"]>>),
      diagram_data |-> Arr(<<"x">>)],
     [summary |-> Str("y"), chapters |-> Arr(<<"y">>)]}

\* the parsed object written to the row as it is
analysisDataAsParsed(parsed) == parsed

\* a value that is not an array put into an array of its own
ArrayOrWrapped(parsed, f) ==
    IF f \notin DOMAIN parsed THEN <<>>
    ELSE IF parsed[f].kind = "array" THEN parsed[f].items ELSE <<parsed[f].str>>

\* Array.isArray(parsed[f]) ? parsed[f] : []
ArrayOrEmpty(parsed, f) ==
    IF f \in DOMAIN parsed /\ parsed[f].kind = "array" THEN parsed[f].items ELSE <<>>

\* analysisData after the field assignments: each field taken from the parsed
\* object when it is there with the right type, left at its empty default
\* otherwise
analysisData(parsed) ==
    [summary |-> IF "summary" \in DOMAIN parsed /\ parsed["summary"].kind = "string"
                 THEN parsed["summary"].str ELSE EmptyAnalysis["summary"],
     thought_trace |-> ArrayOrEmpty(parsed, "thought_trace"),
     chapters |-> ArrayOrEmpty(parsed, "chapters"),
     key_insights |->
        IF "key_insights" \in DOMAIN parsed /\ parsed["key_insights"].kind = "array"
        THEN [n \in 1..Len(parsed["key_insights"].items) |->
                normalizeKeyInsight(parsed["key_insights"].items[n])]
        ELSE EmptyAnalysis["key_insights"],
     timeline_data |-> ArrayOrEmpty(parsed, "timeline_data"),
     diagram_data |-> ArrayOrEmpty(parsed, "diagram_data")]

\* the analysisData objects an inference response can yield
Outputs == {analysisData(parsed) : parsed \in Parsed}

\* the output of a response with every field
FullOutput == analysisData(CHOOSE parsed \in Parsed : DOMAIN parsed = AnalysisFields)

NoRow == [present |-> FALSE, storage_path |-> "", status |-> "", error_message |-> ""]

\* VideoUpload inserts the row with its storage path and status "processing"
InsertedRow(path) ==
    [present |-> TRUE, storage_path |-> path, status |-> "processing", error_message |-> ""]

Terminal == {"completed", "failed"}

\* the update without its .eq("id", videoId) filter
updateVideoStatusAllRows(js, videoId, status, errorMsg, ok) ==
    IF ok
    THEN [v \in DOMAIN js |->
            IF js[v].present THEN [js[v] EXCEPT !.status = status] ELSE js[v]]
    ELSE js

\* updateVideoStatus with the outcome of the update request: the handler awaits
\* the update and discards its result, so a rejected update changes nothing
\* and is not noticed. error_message is part of the update only when a
\* message is given.
updateVideoStatus(js, videoId, status, errorMsg, ok) ==
    IF ok /\ js[videoId].present
    THEN IF errorMsg # ""
         THEN [js EXCEPT ![videoId].status = status, ![videoId].error_message = errorMsg]
         ELSE [js EXCEPT ![videoId].status = status]
    ELSE js

\* primary key of a new video_analyses row; rows are never deleted, and ids
\* grow with created_at
NewRowId(an) == Cardinality(an) + 1

\* plain insert (no conflict target)
insertAnalysis(an, videoId, data) ==
    an \cup {[id |-> NewRowId(an), video_id |-> videoId, data |-> data]}

\* upsert whose conflict target is the primary key: the payload carries no id,
\* so no row conflicts
upsertAnalysisOnPrimaryKey(an, videoId, data) ==
    an \cup {[id |-> NewRowId(an), video_id |-> videoId, data |-> data]}

\* upsert(..., { onConflict: "video_id" }): replace the columns of the row with
\* this video_id if there is one, insert a new row otherwise
upsertAnalysis(an, videoId, data) ==
    IF \E r \in an : r.video_id = videoId
    THEN {IF r.video_id = videoId THEN [r EXCEPT !.data = data] ELSE r : r \in an}
    ELSE an \cup {[id |-> NewRowId(an), video_id |-> videoId, data |-> data]}

----------------------------------------------------------------------------
(* Pipeline orchestrator: Deno.serve handler *)

Invs == 1..NumInv

\* no request body read (yet, or any more)
NoBody == [kind |-> "", id |-> ""]

Idle == [pc |-> "idle", body |-> NoBody, vid |-> "", data |-> EmptyAnalysis, resp |-> 0]

\* request bodies: unparseable, parseable without an id, webhook record, direct call
Bodies ==
    {[kind |-> "invalid", id |-> ""], [kind |-> "none", id |-> ""]}
    \cup {[kind |-> k, id |-> v] : k \in {"record", "video_id"}, v \in VideoIds}

\* the stored message of each failing stage
FailMessage(stage) ==
    CASE stage = "download" -> "Failed to download video"
      [] stage = "uploadStart" -> "Gemini upload initialization failed"
      [] stage = "uploadTransfer" -> "Gemini file upload failed"
      [] stage = "generate" -> "Gemini analysis failed"
      [] stage = "save" -> "Failed to save analysis"

\* the HTTP status of each failing stage
FailStatus(stage) == IF stage = "generate" THEN 502 ELSE 500

\* the handler returns its Response; its locals are gone
Done(i, code) == [inv EXCEPT ![i].pc = "done", ![i].resp = code,
                           ![i].data = EmptyAnalysis]

\* a failing stage: mark the job failed with the stage's message, respond
FailStage(i, stage, writeOk) ==
    /\ jobs' = updateVideoStatus(jobs, inv[i].vid, "failed", FailMessage(stage), writeOk)
    /\ inv' = Done(i, FailStatus(stage))
    /\ UNCHANGED analyses

\* a POST arrives; await req.json() reads its body
ReadBody(i) ==
    /\ inv[i].pc = "idle"
    /\ \E body \in Bodies : inv' = [inv EXCEPT ![i].pc = "parse", ![i].body = body]
    /\ UNCHANGED storeVars

\* the GEMINI_API_KEY check moved before the checks of the body
ReceiveKeyFirst(i) ==
    /\ inv[i].pc = "parse"
    /\ \E geminiKey \in BOOLEAN :
        LET body == inv[i].body IN
        IF ~geminiKey
        THEN inv' = [Done(i, 500) EXCEPT ![i].body = NoBody]
        ELSE IF body.kind \in {"invalid", "none"}
        THEN inv' = [Done(i, 400) EXCEPT ![i].body = NoBody]
        ELSE inv' = [inv EXCEPT ![i].pc = "resolve", ![i].vid = body.id,
                                ![i].body = NoBody]
    /\ UNCHANGED storeVars

\* a missing GEMINI_API_KEY recorded on the job before the 500
ReceiveMarkingNoKey(i) ==
    /\ inv[i].pc = "parse"
    /\ \E geminiKey \in BOOLEAN :
        LET body == inv[i].body IN
        IF body.kind \in {"invalid", "none"}
        THEN inv' = [Done(i, 400) EXCEPT ![i].body = NoBody] /\ UNCHANGED storeVars
        ELSE IF ~geminiKey
        THEN /\ inv' = [Done(i, 500) EXCEPT ![i].body = NoBody]
             /\ jobs' = updateVideoStatus(jobs, body.id, "failed",
                                          "GEMINI_API_KEY not set", TRUE)
             /\ UNCHANGED analyses
        ELSE /\ inv' = [inv EXCEPT ![i].pc = "resolve", ![i].vid = body.id,
                                   ![i].body = NoBody]
             /\ UNCHANGED storeVars

\* body parsing and the GEMINI_API_KEY check
Receive(i) ==
    /\ inv[i].pc = "parse"
    /\ \E geminiKey \in BOOLEAN :
        LET body == inv[i].body IN
        IF body.kind \in {"invalid", "none"}
        THEN inv' = [Done(i, 400) EXCEPT ![i].body = NoBody]
        ELSE IF ~geminiKey
        THEN inv' = [Done(i, 500) EXCEPT ![i].body = NoBody]
        ELSE inv' = [inv EXCEPT ![i].pc = "resolve", ![i].vid = body.id,
                                ![i].body = NoBody]
    /\ UNCHANGED storeVars

\* the status write moved before the check of the fetched record
ResolveJobMarkFirst(i) ==
    /\ inv[i].pc = "resolve"
    /\ \E videoError \in BOOLEAN :
        /\ jobs' = updateVideoStatus(jobs, inv[i].vid, "processing", "", TRUE)
        /\ IF videoError \/ ~jobs[inv[i].vid].present \/ jobs[inv[i].vid].storage_path = ""
           THEN inv' = Done(i, 404)
           ELSE inv' = [inv EXCEPT ![i].pc = "mark"]
    /\ UNCHANGED analyses

\* Step 1: fetch the video record
ResolveJob(i) ==
    /\ inv[i].pc = "resolve"
    /\ \E videoError \in BOOLEAN :
        IF videoError \/ ~jobs[inv[i].vid].present \/ jobs[inv[i].vid].storage_path = ""
        THEN inv' = Done(i, 404)
        ELSE inv' = [inv EXCEPT ![i].pc = "mark"]
    /\ UNCHANGED storeVars

MarkProcessing(i) ==
    /\ inv[i].pc = "mark"
    /\ \E writeOk \in BOOLEAN :
        jobs' = updateVideoStatus(jobs, inv[i].vid, "processing", "", writeOk)
    /\ inv' = [inv EXCEPT ![i].pc = "download"]
    /\ UNCHANGED analyses

\* Step 2: download the video from storage
Download(i) ==
    /\ inv[i].pc = "download"
    /\ \E ok \in BOOLEAN, writeOk \in BOOLEAN :
        IF ok
        THEN inv' = [inv EXCEPT ![i].pc = "uploadStart"] /\ UNCHANGED storeVars
        ELSE FailStage(i, "download", writeOk)

\* the upload negotiation with a retry: a failure goes back to the download
UploadStartRetrying(i) ==
    /\ inv[i].pc = "uploadStart"
    /\ \E uploadUrl \in BOOLEAN :
        inv' = [inv EXCEPT ![i].pc = IF uploadUrl THEN "uploadTransfer" ELSE "download"]
    /\ UNCHANGED storeVars

\* Step 3a: start the resumable upload
UploadStart(i) ==
    /\ inv[i].pc = "uploadStart"
    /\ \E uploadUrl \in BOOLEAN, writeOk \in BOOLEAN :
        IF uploadUrl
        THEN inv' = [inv EXCEPT ![i].pc = "uploadTransfer"] /\ UNCHANGED storeVars
        ELSE FailStage(i, "uploadStart", writeOk)

\* the transfer step with a status write of its own on success
UploadTransferMarking(i) ==
    /\ inv[i].pc = "uploadTransfer"
    /\ \E res \in {"ok", "notOk", "noFileUri"}, writeOk \in BOOLEAN :
        IF res = "ok"
        THEN /\ inv' = [inv EXCEPT ![i].pc = "generate"]
             /\ jobs' = updateVideoStatus(jobs, inv[i].vid, "uploading", "", TRUE)
             /\ UNCHANGED analyses
        ELSE FailStage(i, "uploadTransfer", writeOk)

\* Step 3b: transfer the bytes; the response must be ok and carry file.uri
UploadTransfer(i) ==
    /\ inv[i].pc = "uploadTransfer"
    /\ \E res \in {"ok", "notOk", "noFileUri"}, writeOk \in BOOLEAN :
        IF res = "ok"
        THEN inv' = [inv EXCEPT ![i].pc = "generate"] /\ UNCHANGED storeVars
        ELSE FailStage(i, "uploadTransfer", writeOk)

\* Step 4: generate, extract and parse the analysis
Generate(i) ==
    /\ inv[i].pc = "generate"
    /\ \E res \in {"notOk", "empty", "malformed", "parsed"}, parsed \in Parsed,
          writeOk \in BOOLEAN :
        IF res = "parsed"
        THEN /\ inv' = [inv EXCEPT ![i].pc = "save", ![i].data = analysisData(parsed)]
             /\ UNCHANGED storeVars
        ELSE FailStage(i, "generate", writeOk)

\* the save step without the check of insertError
SaveAnalysisUnchecked(i) ==
    /\ inv[i].pc = "save"
    /\ \E insertError \in BOOLEAN :
        analyses' = IF insertError THEN analyses
                    ELSE upsertAnalysis(analyses, inv[i].vid, inv[i].data)
    /\ inv' = [inv EXCEPT ![i].pc = "finalize"]
    /\ UNCHANGED jobs

\* Step 5: save to the database
SaveAnalysis(i) ==
    /\ inv[i].pc = "save"
    /\ \E insertError \in BOOLEAN, writeOk \in BOOLEAN :
        IF insertError
        THEN FailStage(i, "save", writeOk)
        ELSE /\ analyses' = upsertAnalysis(analyses, inv[i].vid, inv[i].data)
             /\ inv' = [inv EXCEPT ![i].pc = "finalize"]
             /\ UNCHANGED jobs

\* Step 6: mark as completed
Finalize(i) ==
    /\ inv[i].pc = "finalize"
    /\ \E writeOk \in BOOLEAN :
        jobs' = updateVideoStatus(jobs, inv[i].vid, "completed", "", writeOk)
    /\ inv' = Done(i, 200)
    /\ UNCHANGED analyses

----------------------------------------------------------------------------
(* Inference response parsing: the Parse JSON block of the handler. A text is
   a sequence of tokens: the fence of three backticks, the word json, the two
   braces, a well-formed list of members, a word of prose, whitespace. *)

Fence == "fence"
Tokens == {Fence, "json", "{", "}", "members", "a", " "}

\* String.prototype.indexOf / lastIndexOf for one token, 0-based, -1 for none
indexOf(text, tok) ==
    IF \E n \in 1..Len(text) : text[n] = tok
    THEN (CHOOSE n \in 1..Len(text) :
            text[n] = tok /\ \A k \in 1..(n - 1) : text[k] # tok) - 1
    ELSE -1

lastIndexOf(text, tok) ==
    IF \E n \in 1..Len(text) : text[n] = tok
    THEN (CHOOSE n \in 1..Len(text) :
            text[n] = tok /\ \A k \in (n + 1)..Len(text) : text[k] # tok) - 1
    ELSE -1

\* String.prototype.slice(start, end) for 0 <= start <= end
slice(text, start, end) == SubSeq(text, start + 1, end)

\* String.prototype.trim
trim(text) ==
    LET visible == {n \in 1..Len(text) : text[n] # " "} IN
    IF visible = {} THEN <<>>
    ELSE SubSeq(text, CHOOSE n \in visible : \A k \in visible : n <= k,
                      CHOOSE n \in visible : \A k \in visible : k <= n)

\* responseText.match(/```(?:json)?\s*([\s\S]*?)```/): the match starts at the
\* first fence that has a fence after it; the optional word json and the
\* whitespace after it are skipped; the group runs up to the next fence
codeMatch(text) ==
    LET fences == {n \in 1..Len(text) : text[n] = Fence} IN
    IF Cardinality(fences) < 2 THEN [matched |-> FALSE, group |-> <<>>]
    ELSE LET open == CHOOSE n \in fences : \A k \in fences : n <= k
             close == CHOOSE n \in fences \ {open} : \A k \in fences \ {open} : n <= k
             afterTag == IF open + 1 < close /\ text[open + 1] = "json"
                         THEN open + 2 ELSE open + 1
             rest == {n \in afterTag..close : n = close \/ text[n] # " "}
             from == CHOOSE n \in rest : \A k \in rest : n <= k
         IN [matched |-> TRUE, group |-> SubSeq(text, from, close - 1)]

\* the extraction that always slices between the braces
extractJsonBracesOnly(text) ==
    LET start == indexOf(text, "{")
        end == lastIndexOf(text, "}") + 1
    IN IF start >= 0 /\ end > start THEN slice(text, start, end) ELSE text

\* jsonStr as the Parse JSON block computes it from responseText
extractJson(text) ==
    IF codeMatch(text).matched THEN trim(codeMatch(text).group)
    ELSE LET start == indexOf(text, "{")
             end == lastIndexOf(text, "}") + 1
         IN IF start >= 0 /\ end > start THEN slice(text, start, end) ELSE text

\* the response texts: trimmed and not empty
Texts ==
    {text \in UNION {[1..n -> Tokens] : n \in 1..MaxTextLen} :
        text[1] # " " /\ text[Len(text)] # " "}

\* parsedJson before JSON.parse has returned
NoObject == [f \in {} |-> Other("undefined")]

\* no response is being parsed
NotParsing ==
    /\ parsePc = "idle"
    /\ responseText = <<>>
    /\ jsonStr = <<>>
    /\ parsedJson = NoObject
    /\ analysisOut = EmptyAnalysis

\* let jsonStr = responseText; codeMatch ...; jsonStr = ...
ExtractJson ==
    /\ parsePc = "text"
    /\ jsonStr' = extractJson(responseText)
    /\ parsePc' = "extracted"
    /\ UNCHANGED <<responseText, parsedJson, analysisOut>>

\* the items a key_insights array of a response is made of: a string, a
\* number, null, objects that lack one of the two keys, objects with both
RawInsights ==
    {InsightScalar(ScalarString("x")), InsightScalar(ScalarNumber(7)),
     InsightScalar(ScalarNull),
     InsightObject({"timestamp", "text"}, 5, 0, ScalarString("x")),
     InsightObject({"timestamp", "importance", "text"}, 5, 9, ScalarString("x")),
     InsightObject({"timestamp", "importance"}, 3, 11, ScalarUndefined),
     InsightObject({"timestamp", "importance", "text"}, 3, 0, ScalarNumber(7)),
     InsightObject({"timestamp", "importance", "text"}, 3, 1, ScalarNull)}

\* the items a timeline_data array of a response is made of
RawTimelineItems ==
    {[position |-> 50, label |-> "x", type |-> "primary"],
     [position |-> 101, label |-> "x", type |-> "warning"],
     [position |-> 0, label |-> "x", type |-> "other"]}

ParsedFull == CHOOSE parsed \in Parsed : DOMAIN parsed = AnalysisFields

\* the values one field of a response object takes: of the expected type, and
\* of another type
FieldValues(f) ==
    CASE f = "summary" -> {Str("y"), Other("number"), Other("null")}
      [] f = "key_insights" ->
            {Arr(items) : items \in UNION {[1..n -> RawInsights] : n \in 0..MaxItems}}
                \cup {Str("y"), Other("object")}
      [] f = "timeline_data" ->
            {Arr(items) : items \in UNION {[1..n -> RawTimelineItems] : n \in 0..1}}
                \cup {Str("y"), Other("object")}
      [] OTHER -> {Arr(<<>>), Arr(<<"y">>), Str("y"), Other("object"), Other("null")}

\* the objects JSON.parse returns for a list of members: the full object with
\* one field left out or holding another value
ParsedObjects ==
    Parsed
        \cup {[f \in AnalysisFields \ {g} |-> ParsedFull[f]] : g \in AnalysisFields}
        \cup UNION {{[ParsedFull EXCEPT ![f] = v] : v \in FieldValues(f)} :
                        f \in AnalysisFields}

\* JSON.parse(jsonStr): the set of values it can return, empty when it throws.
\* The text is an object when, whitespace aside, it is a pair of braces
\* around nothing or around a list of members.
JSONparse(text) ==
    LET squeezed == SelectSeq(text, LAMBDA tok : tok # " ") IN
    IF squeezed = <<"{", "}">> THEN {NoObject}
    ELSE IF squeezed = <<"{", "members", "}">> THEN ParsedObjects
    ELSE {}

\* const parsed = JSON.parse(jsonStr)
JsonParse ==
    /\ parsePc = "extracted"
    /\ IF JSONparse(jsonStr) = {}
       THEN parsePc' = "failed" /\ UNCHANGED parsedJson
       ELSE parsePc' = "parsed" /\ parsedJson' \in JSONparse(jsonStr)
    /\ UNCHANGED <<responseText, jsonStr, analysisOut>>

\* the assignments to the fields of analysisData
AssignFields ==
    /\ parsePc = "parsed"
    /\ analysisOut' = analysisData(parsedJson)
    /\ parsePc' = "assigned"
    /\ UNCHANGED <<responseText, jsonStr, parsedJson>>

----------------------------------------------------------------------------
(* Status synchronization client: AnalysisView without a payload prop *)

PROGRESS_STEPS ==
    <<"Video secured in vault...", "Transferring to Gemini Engine...",
      "Performing High-Reasoning Scan...">>
POLL_INTERVAL_MS == 3000
EARLY_POLL_MS == 1000
MAX_POLL_TIMEOUT_MS == 300000

Null == [video_id |-> "", data |-> EmptyAnalysis]

\* the payload prop not given: the component subscribes itself
Undefined == [video_id |-> "undefined", data |-> EmptyAnalysis]
NoError == ""
FailedMsg == "Analysis failed. Please try again or use a shorter video."
TimeoutMsg == "Analysis is taking longer than expected (5 min). Please try again or use a shorter video."
FetchErrorMsg == "e.message"

\* useState initial values, which the reset effect sets again for a new videoId
InitialUi ==
    [internalPayload |-> Null, loading |-> TRUE, error |-> NoError,
     progressStep |-> 0, fallbackVideoId |-> "", videoStatus |-> "processing"]

\* the requests of the component: fetchOnce(false) of runPoll and the
\* fetchLatestAnalysis and fetchVideoStatus that follow it; of the effect body,
\* fetchVideoStatus, and fetchOnce(true) with the fetchLatestAnalysis that
\* follows it
\* The requests of a session that a change of videoId has superseded are
\* still in flight and keep their callbacks: StaleOps.
StaleOps == {"stalePollOnce", "stalePollLatest", "stalePollStatus", "staleInitStatus",
             "staleInitOnce", "staleInitLatest", "staleConsoleFetch"}

Ops == {"pollOnce", "pollLatest", "pollStatus", "initStatus", "initOnce", "initLatest",
        "consoleFetch"} \cup StaleOps

NoRequests == [op \in Ops |-> 0]
Issue(fl, op) == [fl EXCEPT ![op] = @ + 1]
Answer(fl, op) == [fl EXCEPT ![op] = @ - 1]

\* poll rounds in flight: a round is one request at a time
PollRounds(fl) == fl["pollOnce"] + fl["pollLatest"] + fl["pollStatus"]

\* the payload built from a row; a payload carries no id of its own, video_id
\* is kept here to tell whose record is displayed
rowToPayload(row) ==
    IF row = Null THEN Null ELSE [video_id |-> row.video_id, data |-> row.data]

\* .eq("video_id", id).maybeSingle()
RowOf(an, id) ==
    IF \E r \in an : r.video_id = id
    THEN rowToPayload(CHOOSE r \in an : r.video_id = id)
    ELSE Null

\* .order("created_at", { ascending: false }).limit(1).maybeSingle()
LatestRow(an) ==
    IF an = {} THEN Null
    ELSE rowToPayload(CHOOSE r \in an : \A q \in an : q.id <= r.id)

\* applyResult without the fallback tag
applyResultUntagged(u, data, fromFallbackVideoId) ==
    IF data = Null THEN u
    ELSE [u EXCEPT !.internalPayload = data, !.error = NoError, !.loading = FALSE]

\* applyResult that waits for the completed status before it takes a record
applyResultWhenCompleted(u, data, fromFallbackVideoId) ==
    IF data = Null \/ u.videoStatus # "completed" THEN u
    ELSE [u EXCEPT !.internalPayload = data,
                   !.error = NoError,
                   !.loading = FALSE,
                   !.fallbackVideoId = IF fromFallbackVideoId # "" THEN fromFallbackVideoId ELSE @]

\* applyResult: no data, no change; otherwise the payload is set, the error
\* cleared and loading ended, and the fallback tag is set when the record
\* came from the latest-record fallback. No timer and no channel is touched.
applyResult(u, data, fromFallbackVideoId) ==
    IF data = Null THEN u
    ELSE [u EXCEPT !.internalPayload = data,
                   !.error = NoError,
                   !.loading = FALSE,
                   !.fallbackVideoId = IF fromFallbackVideoId # "" THEN fromFallbackVideoId ELSE @]

\* const payload = payloadProp !== undefined ? payloadProp : internalPayload
Payload(u) == IF payloadProp # Undefined THEN payloadProp ELSE u.internalPayload

\* what the component renders: the payload, else the failed card, else the
\* error card, else the stepped progress indicator
View(u) ==
    IF Payload(u) # Null THEN "ready"
    ELSE IF u.videoStatus = "failed" THEN "failed"
    ELSE IF u.error # NoError THEN "error"
    ELSE "pending"

\* the progress effect keeps its interval while these hold
ProgressTimer(u) == u.loading /\ Payload(u) = Null /\ u.videoStatus # "failed"

\* a status seen by the channelVideo handler or by fetchVideoStatus: statusSeen
\* takes a row status, "" when the row or its status is missing
statusSeenKeepInterval(status) ==
    /\ ui' = IF status = "" THEN ui
             ELSE IF status = "failed"
             THEN [ui EXCEPT !.videoStatus = status, !.error = FailedMsg, !.loading = FALSE]
             ELSE [ui EXCEPT !.videoStatus = status]
    /\ UNCHANGED pollRef

statusSeen(status) ==
    /\ ui' = IF status = "" THEN ui
             ELSE IF status = "failed"
             THEN [ui EXCEPT !.videoStatus = status, !.error = FailedMsg, !.loading = FALSE]
             ELSE [ui EXCEPT !.videoStatus = status]
    /\ pollRef' = IF status = "failed" THEN FALSE ELSE pollRef

\* runPoll: past the timeout it stops the interval and sets the timeout
\* error, otherwise it issues fetchOnce(false)
runPoll ==
    IF overTime
    THEN /\ pollRef' = FALSE
         /\ ui' = [ui EXCEPT !.error = TimeoutMsg, !.loading = FALSE]
         /\ UNCHANGED inflight
    ELSE /\ inflight' = Issue(inflight, "pollOnce")
         /\ UNCHANGED <<ui, pollRef>>

\* setInterval(runPoll, POLL_INTERVAL_MS); its first tick comes after the
\* early poll
IntervalTick ==
    /\ pollRef
    /\ EARLY_POLL_MS < POLL_INTERVAL_MS => ~earlyPollTimer
    /\ overTime \/ PollRounds(inflight) < MaxInflight
    /\ runPoll
    /\ UNCHANGED <<storeVars, inv, events, videoIdProp, payloadProp, earlyPollTimer, channelAnalysis,
                   channelVideo, overTime>>

\* setTimeout(runPoll, 1000)
EarlyPoll ==
    /\ earlyPollTimer
    /\ overTime \/ PollRounds(inflight) < MaxInflight
    /\ earlyPollTimer' = FALSE
    /\ runPoll
    /\ UNCHANGED <<storeVars, inv, events, videoIdProp, payloadProp, channelAnalysis, channelVideo,
                   overTime>>

\* the wall clock passes MAX_POLL_TIMEOUT_MS after the start of the effect;
\* the early poll is due long before
TimeoutElapses ==
    /\ payloadProp = Undefined
    /\ ~overTime
    /\ EARLY_POLL_MS < MAX_POLL_TIMEOUT_MS => ~earlyPollTimer
    /\ overTime' = TRUE
    /\ UNCHANGED <<storeVars, inv, events, videoIdProp, payloadProp, ui, pollRef, earlyPollTimer,
                   channelAnalysis, channelVideo, inflight>>

\* the progress effect's interval: one step further, up to the last step
ProgressTick ==
    /\ ProgressTimer(ui)
    /\ ui.progressStep < Len(PROGRESS_STEPS) - 1
    /\ ui' = [ui EXCEPT !.progressStep = @ + 1]
    /\ UNCHANGED <<storeVars, inv, events, videoIdProp, payloadProp, pollRef, earlyPollTimer,
                   channelAnalysis, channelVideo, overTime, inflight>>

\* channelAnalysis: an INSERT or UPDATE event of video_analyses with
\* video_id = videoId; events may be delivered late, repeatedly or never
PushAnalysis ==
    /\ channelAnalysis
    /\ \E e \in events :
        /\ e.table = "video_analyses" /\ e.id = videoIdProp
        /\ ui' = applyResult(ui, rowToPayload([video_id |-> e.id, data |-> e.val]), "")
    /\ UNCHANGED <<storeVars, inv, events, videoIdProp, payloadProp, pollRef, earlyPollTimer,
                   channelAnalysis, channelVideo, overTime, inflight>>

\* channelVideo: an UPDATE event of videos with id = videoId
PushVideo ==
    /\ channelVideo
    /\ \E e \in events :
        /\ e.table = "videos" /\ e.id = videoIdProp
        /\ statusSeen(e.val)
    /\ UNCHANGED <<storeVars, inv, events, videoIdProp, payloadProp, earlyPollTimer, channelAnalysis,
                   channelVideo, overTime, inflight>>

\* the outcomes of the by-id query: a response without error (with or without
\* a row), an error of the bad-request class (is400), any other error, a
\* thrown exception
FetchResults == {"ok", "badRequest", "error", "exception"}

\* fetchOnce with every error of the query setting the error state
fetchOnceFailAlways(u, res, setErrorOnFail) ==
    IF setErrorOnFail /\ res # "ok"
    THEN [u EXCEPT !.error = FetchErrorMsg, !.loading = FALSE]
    ELSE u

\* the state writes of fetchOnce(setErrorOnFail) for an outcome of its query:
\* with setErrorOnFail, an error that is not is400, or an exception, sets the
\* error and ends loading
fetchOnce(u, res, setErrorOnFail) ==
    IF setErrorOnFail /\ res \in {"error", "exception"}
    THEN [u EXCEPT !.error = FetchErrorMsg, !.loading = FALSE]
    ELSE u

\* the answer to fetchOnce(false) and runPoll's continuation: a record is
\* applied, anything else (no row, or any error) goes on to the fallback
PollOnceResult(res) ==
    /\ inflight["pollOnce"] > 0
    /\ LET payload == IF res = "ok" THEN RowOf(analyses, videoIdProp) ELSE Null IN
        IF payload # Null
        THEN /\ ui' = applyResult(ui, payload, "")
             /\ inflight' = Answer(inflight, "pollOnce")
        ELSE /\ inflight' = Issue(Answer(inflight, "pollOnce"), "pollLatest")
             /\ ui' = fetchOnce(ui, res, FALSE)
    /\ UNCHANGED <<storeVars, inv, events, videoIdProp, payloadProp, pollRef, earlyPollTimer,
                   channelAnalysis, channelVideo, overTime>>

PollOnceAnswer == \E res \in FetchResults : PollOnceResult(res)

\* the answer to fetchLatestAnalysis; next is the request the caller issues
\* when the fallback was not used, "" for none
LatestAnswer(op, next) ==
    /\ inflight[op] > 0
    /\ \E ok \in BOOLEAN :
        LET payload == IF ok THEN LatestRow(analyses) ELSE Null IN
        IF payload # Null
        THEN /\ ui' = applyResult(ui, payload, payload.video_id)
             /\ inflight' = Answer(inflight, op)
        ELSE /\ inflight' = IF next = "" THEN Answer(inflight, op)
                          ELSE Issue(Answer(inflight, op), next)
             /\ UNCHANGED ui
    /\ UNCHANGED <<storeVars, inv, events, videoIdProp, payloadProp, pollRef, earlyPollTimer,
                   channelAnalysis, channelVideo, overTime>>

\* runPoll: fetchLatestAnalysis().then(used => { if (!used) fetchVideoStatus() })
PollLatestAnswer == LatestAnswer("pollLatest", "pollStatus")

\* effect body: fetchLatestAnalysis().then(used => { if (!used) {} })
InitLatestAnswer == LatestAnswer("initLatest", "")

\* the answer to fetchVideoStatus, of the effect body or of a poll round
StatusAnswer ==
    /\ \E op \in {"initStatus", "pollStatus"} :
        /\ inflight[op] > 0
        /\ inflight' = Answer(inflight, op)
    /\ \E ok \in BOOLEAN :
        IF ok /\ jobs[videoIdProp].present
        THEN statusSeen(jobs[videoIdProp].status)
        ELSE UNCHANGED <<ui, pollRef>>
    /\ UNCHANGED <<storeVars, inv, events, videoIdProp, payloadProp, earlyPollTimer, channelAnalysis,
                   channelVideo, overTime>>

\* the answer to fetchOnce(true) and the effect body's continuation: an error
\* other than a bad request sets the error state; a record is applied,
\* anything else sets loading and goes on to the fallback
InitOnceResult(res) ==
    /\ inflight["initOnce"] > 0
    /\ LET payload == IF res = "ok" THEN RowOf(analyses, videoIdProp) ELSE Null
            u1 == fetchOnce(ui, res, TRUE)
        IN
        IF payload # Null
        THEN /\ ui' = applyResult(u1, payload, "")
             /\ inflight' = Answer(inflight, "initOnce")
        ELSE /\ ui' = [u1 EXCEPT !.loading = TRUE]
             /\ inflight' = Issue(Answer(inflight, "initOnce"), "initLatest")
    /\ UNCHANGED <<storeVars, inv, events, videoIdProp, payloadProp, pollRef, earlyPollTimer,
                   channelAnalysis, channelVideo, overTime>>

InitOnceAnswer == \E res \in FetchResults : InitOnceResult(res)

(* The store as the client observes it: the writes of the edge function for
   the client's job, each followed by the database's change event. Invocations
   may be repeated and may overlap, so the writes come in any order, except
   that completed is written after the upsert of the same invocation. A
   channel delivers the latest change of a row, late, repeatedly or never. *)

Emit(table, id, val) ==
    {e \in events : e.table # table \/ e.id # id}
        \cup {[table |-> table, id |-> id, val |-> val]}

StoreStatusWrite ==
    /\ \E status \in {"processing", "failed", "completed"} :
        /\ status = "completed" => RowOf(analyses, videoIdProp) # Null
        /\ jobs' = updateVideoStatus(jobs, videoIdProp, status,
                      IF status = "failed" THEN FailMessage("generate") ELSE "", TRUE)
        /\ events' = Emit("videos", videoIdProp, status)
    /\ UNCHANGED <<analyses, inv, videoIdProp, payloadProp, ui, pollRef, earlyPollTimer, channelAnalysis,
                   channelVideo, overTime, inflight>>

StoreUpsert ==
    /\ \E v \in {videoIdProp}, d \in {FullOutput} :
        /\ jobs[v].present
        /\ analyses' = upsertAnalysis(analyses, v, d)
        /\ events' = Emit("video_analyses", v, d)
    /\ UNCHANGED <<jobs, inv, videoIdProp, payloadProp, ui, pollRef, earlyPollTimer, channelAnalysis,
                   channelVideo, overTime, inflight>>

\* AnalysisViewWithConsole: its channel on video_analyses with
\* video_id = videoId; a payload that is built is set
ConsolePush ==
    /\ payloadProp # Undefined
    /\ \E e \in events :
        /\ e.table = "video_analyses" /\ e.id = videoIdProp
        /\ payloadProp' = rowToPayload([video_id |-> e.id, data |-> e.val])
    /\ UNCHANGED <<storeVars, inv, events, videoIdProp, ui, pollRef, earlyPollTimer,
                   channelAnalysis, channelVideo, overTime, inflight>>

\* AnalysisViewWithConsole: the answer to its one fetch; an error, an
\* exception or no row leaves the payload as it is
ConsoleFetchAnswer ==
    /\ inflight["consoleFetch"] > 0
    /\ inflight' = Answer(inflight, "consoleFetch")
    /\ \E ok \in BOOLEAN :
        LET payload == IF ok THEN RowOf(analyses, videoIdProp) ELSE Null IN
        payloadProp' = IF payload # Null THEN payload ELSE payloadProp
    /\ UNCHANGED <<storeVars, inv, events, videoIdProp, ui, pollRef, earlyPollTimer,
                   channelAnalysis, channelVideo, overTime>>

\* the effect body: fetchVideoStatus(); runPoll(); fetchOnce(true)
MountRequests == Issue(Issue(Issue(NoRequests, "initStatus"), "pollOnce"), "initOnce")

\* the client before it is mounted
Unmounted ==
    /\ events = {}
    /\ videoIdProp = ""
    /\ payloadProp = Undefined
    /\ ui = InitialUi
    /\ pollRef = FALSE
    /\ earlyPollTimer = FALSE
    /\ channelAnalysis = FALSE
    /\ channelVideo = FALSE
    /\ overTime = FALSE
    /\ inflight = NoRequests

\* the client after its first render and effects: state reset, both channels
\* subscribed, fetchVideoStatus, runPoll and fetchOnce(true) issued, the
\* interval and the early poll scheduled
Mounted(id) ==
    /\ events = {}
    /\ videoIdProp = id
    /\ payloadProp = Undefined
    /\ ui = InitialUi
    /\ pollRef = TRUE
    /\ earlyPollTimer = TRUE
    /\ channelAnalysis = TRUE
    /\ channelVideo = TRUE
    /\ overTime = FALSE
    /\ inflight = MountRequests

\* the wrapper mounting with a main effect that runs while the payload prop is
\* null
MountedWithConsoleEffectRuns(id) ==
    /\ events = {}
    /\ videoIdProp = id
    /\ payloadProp = Null
    /\ ui = InitialUi
    /\ pollRef = TRUE
    /\ earlyPollTimer = TRUE
    /\ channelAnalysis = TRUE
    /\ channelVideo = TRUE
    /\ overTime = FALSE
    /\ inflight = Issue(MountRequests, "consoleFetch")

\* the client as Index mounts it, through AnalysisViewWithConsole: the payload
\* prop is the wrapper's state, null at first, so the main effect of
\* AnalysisView returns at its guard (no channel, no request, no timer); the
\* wrapper has subscribed its own channel and issued its one fetch
MountedWithConsole(id) ==
    /\ events = {}
    /\ videoIdProp = id
    /\ payloadProp = Null
    /\ ui = InitialUi
    /\ pollRef = FALSE
    /\ earlyPollTimer = FALSE
    /\ channelAnalysis = FALSE
    /\ channelVideo = FALSE
    /\ overTime = FALSE
    /\ inflight = Issue(NoRequests, "consoleFetch")

----------------------------------------------------------------------------
(* The videoId prop changes on a mounted client, and the client is unmounted *)

\* the job id of the session that is superseded, and the one of the new session
SwitchFrom == "a"
SwitchTo == "b"

\* the request of the running session that becomes the stale request op
FreshOf(op) ==
    CASE op = "stalePollOnce" -> "pollOnce"
      [] op = "stalePollLatest" -> "pollLatest"
      [] op = "stalePollStatus" -> "pollStatus"
      [] op = "staleInitStatus" -> "initStatus"
      [] op = "staleInitOnce" -> "initOnce"
      [] op = "staleInitLatest" -> "initLatest"
      [] op = "staleConsoleFetch" -> "consoleFetch"

\* no request is aborted when the effects are cleaned up: those in flight stay
\* in flight, with the videoId and the setters their closures hold
Superseded(fl) == [op \in Ops |-> IF op \in StaleOps THEN fl[FreshOf(op)] ELSE 0]

\* videoId changes from SwitchFrom to SwitchTo: the reset effect sets the local
\* state; the cleanup of the main effect clears the early-poll timer, removes
\* both channels and clears the interval; without a payload prop the main
\* effect runs again for the new id. With the wrapper, its effect replaces its
\* channel and issues its fetch again, its payload state staying as it is.
SwitchJob ==
    /\ videoIdProp = SwitchFrom
    /\ videoIdProp' = SwitchTo
    /\ ui' = InitialUi
    /\ IF payloadProp = Undefined
       THEN /\ pollRef' = TRUE
            /\ earlyPollTimer' = TRUE
            /\ channelAnalysis' = TRUE
            /\ channelVideo' = TRUE
            /\ inflight' = [op \in Ops |-> Superseded(inflight)[op] + MountRequests[op]]
       ELSE /\ pollRef' = FALSE
            /\ earlyPollTimer' = FALSE
            /\ channelAnalysis' = FALSE
            /\ channelVideo' = FALSE
            /\ inflight' = Issue(Superseded(inflight), "consoleFetch")
    /\ overTime' = FALSE
    /\ UNCHANGED <<storeVars, inv, events, payloadProp>>

\* the component is unmounted: the cleanups run (the progress interval is
\* cleared with the others), and React drops the state and every later call
\* of its setters
Teardown ==
    /\ videoIdProp # ""
    /\ videoIdProp' = ""
    /\ payloadProp' = Undefined
    /\ ui' = InitialUi
    /\ pollRef' = FALSE
    /\ earlyPollTimer' = FALSE
    /\ channelAnalysis' = FALSE
    /\ channelVideo' = FALSE
    /\ overTime' = FALSE
    /\ inflight' = NoRequests
    /\ UNCHANGED <<storeVars, inv, events>>

\* the answer to a superseded fetchOnce: its query is the one for SwitchFrom,
\* its callbacks are those of fetchOnce and of its caller
StaleOnceAnswer(op, setErrorOnFail, next) ==
    /\ inflight[op] > 0
    /\ \E res \in FetchResults :
        LET payload == IF res = "ok" THEN RowOf(analyses, SwitchFrom) ELSE Null
            u1 == fetchOnce(ui, res, setErrorOnFail)
        IN
        IF payload # Null
        THEN /\ ui' = applyResult(u1, payload, "")
             /\ inflight' = Answer(inflight, op)
        ELSE /\ ui' = IF setErrorOnFail THEN [u1 EXCEPT !.loading = TRUE] ELSE u1
             /\ inflight' = Issue(Answer(inflight, op), next)
    /\ UNCHANGED <<storeVars, inv, events, videoIdProp, payloadProp, pollRef, earlyPollTimer,
                   channelAnalysis, channelVideo, overTime>>

\* the answer to a superseded fetchVideoStatus
StaleStatusAnswer ==
    /\ \E op \in {"staleInitStatus", "stalePollStatus"} :
        /\ inflight[op] > 0
        /\ inflight' = Answer(inflight, op)
    /\ \E ok \in BOOLEAN :
        IF ok /\ jobs[SwitchFrom].present
        THEN statusSeen(jobs[SwitchFrom].status)
        ELSE UNCHANGED <<ui, pollRef>>
    /\ UNCHANGED <<storeVars, inv, events, videoIdProp, payloadProp, earlyPollTimer, channelAnalysis,
                   channelVideo, overTime>>

\* the answer to the superseded fetch of the wrapper
StaleConsoleFetchAnswer ==
    /\ inflight["staleConsoleFetch"] > 0
    /\ inflight' = Answer(inflight, "staleConsoleFetch")
    /\ \E ok \in BOOLEAN :
        LET payload == IF ok THEN RowOf(analyses, SwitchFrom) ELSE Null IN
        payloadProp' = IF payload # Null THEN payload ELSE payloadProp
    /\ UNCHANGED <<storeVars, inv, events, videoIdProp, ui, pollRef, earlyPollTimer,
                   channelAnalysis, channelVideo, overTime>>

\* the answers to the superseded requests
StaleAnswer ==
    \/ StaleOnceAnswer("stalePollOnce", FALSE, "stalePollLatest")
    \/ StaleOnceAnswer("staleInitOnce", TRUE, "staleInitLatest")
    \/ LatestAnswer("stalePollLatest", "stalePollStatus")
    \/ LatestAnswer("staleInitLatest", "")
    \/ StaleStatusAnswer
    \/ StaleConsoleFetchAnswer

Init ==
    /\ \E pathB \in {"", "p"}, presentB \in BOOLEAN :
        jobs = [v \in VideoIds |->
                  IF v = "a" THEN InsertedRow("p")
                  ELSE IF presentB THEN InsertedRow(pathB) ELSE NoRow]
    /\ analyses = {}
    /\ inv = [i \in Invs |-> Idle]
    /\ Unmounted
    /\ NotParsing

Next ==
    \/ \E i \in Invs : ReadBody(i) /\ UNCHANGED <<clientVars, parseVars>>
    \/ \E i \in Invs : Receive(i) /\ UNCHANGED <<clientVars, parseVars>>
    \/ \E i \in Invs : ResolveJob(i) /\ UNCHANGED <<clientVars, parseVars>>
    \/ \E i \in Invs : MarkProcessing(i) /\ UNCHANGED <<clientVars, parseVars>>
    \/ \E i \in Invs : Download(i) /\ UNCHANGED <<clientVars, parseVars>>
    \/ \E i \in Invs : UploadStart(i) /\ UNCHANGED <<clientVars, parseVars>>
    \/ \E i \in Invs : UploadTransfer(i) /\ UNCHANGED <<clientVars, parseVars>>
    \/ \E i \in Invs : Generate(i) /\ UNCHANGED <<clientVars, parseVars>>
    \/ \E i \in Invs : SaveAnalysis(i) /\ UNCHANGED <<clientVars, parseVars>>
    \/ \E i \in Invs : Finalize(i) /\ UNCHANGED <<clientVars, parseVars>>

Spec == Init /\ [][Next]_vars

\* the client mounted for job "a", with or without the wrapper, after the
\* upload has inserted the job; job "b" is
\* another upload, not analysed, analysed already, or analysed after "a" was
ClientInit ==
    /\ jobs = [v \in VideoIds |-> InsertedRow("p")]
    /\ analyses \in {{}, upsertAnalysis({}, "b", FullOutput),
                      upsertAnalysis(upsertAnalysis({}, "a", FullOutput), "b", FullOutput)}
    /\ inv = [i \in Invs |-> Idle]
    /\ Mounted("a") \/ MountedWithConsole("a")
    /\ NotParsing

ClientNext ==
    \/ IntervalTick /\ UNCHANGED parseVars
    \/ EarlyPoll /\ UNCHANGED parseVars
    \/ TimeoutElapses /\ UNCHANGED parseVars
    \/ ProgressTick /\ UNCHANGED parseVars
    \/ PushAnalysis /\ UNCHANGED parseVars
    \/ PushVideo /\ UNCHANGED parseVars
    \/ PollOnceAnswer /\ UNCHANGED parseVars
    \/ PollLatestAnswer /\ UNCHANGED parseVars
    \/ InitLatestAnswer /\ UNCHANGED parseVars
    \/ StatusAnswer /\ UNCHANGED parseVars
    \/ InitOnceAnswer /\ UNCHANGED parseVars
    \/ ConsolePush /\ UNCHANGED parseVars
    \/ ConsoleFetchAnswer /\ UNCHANGED parseVars
    \/ StoreStatusWrite /\ UNCHANGED parseVars
    \/ StoreUpsert /\ UNCHANGED parseVars

ClientSpec == ClientInit /\ [][ClientNext]_vars

\* the runtime fires every timer that is set, and the wall clock advances
ClientFairSpec ==
    /\ ClientSpec
    /\ WF_vars(EarlyPoll /\ UNCHANGED parseVars)
    /\ WF_vars(IntervalTick /\ UNCHANGED parseVars)
    /\ WF_vars(TimeoutElapses /\ UNCHANGED parseVars)
    /\ WF_vars(ProgressTick /\ UNCHANGED parseVars)

\* the parsing of one response text, from the text to the normalized analysis
ParseInit ==
    /\ parsePc = "text"
    /\ responseText \in Texts
    /\ jsonStr = responseText
    /\ parsedJson = NoObject
    /\ analysisOut = EmptyAnalysis
    /\ jobs = [id \in VideoIds |-> NoRow]
    /\ analyses = {}
    /\ inv = [i \in Invs |-> Idle]
    /\ Unmounted

ParseNext ==
    \/ ExtractJson /\ UNCHANGED <<storeVars, inv, clientVars>>
    \/ JsonParse /\ UNCHANGED <<storeVars, inv, clientVars>>
    \/ AssignFields /\ UNCHANGED <<storeVars, inv, clientVars>>

ParseSpec == ParseInit /\ [][ParseNext]_vars

\* the client over a change of its videoId prop and its unmounting, with a
\* store that holds the records of both jobs, or of the first only, and does
\* not change meanwhile
SwitchInit ==
    /\ jobs = [v \in VideoIds |-> InsertedRow("p")]
    /\ analyses \in {upsertAnalysis({}, SwitchFrom, FullOutput),
                      upsertAnalysis(upsertAnalysis({}, SwitchFrom, FullOutput),
                                     SwitchTo, FullOutput)}
    /\ inv = [i \in Invs |-> Idle]
    /\ Mounted(SwitchFrom) \/ MountedWithConsole(SwitchFrom)
    /\ NotParsing

SwitchNext ==
    \/ IntervalTick /\ UNCHANGED parseVars
    \/ EarlyPoll /\ UNCHANGED parseVars
    \/ videoIdProp # "" /\ TimeoutElapses /\ UNCHANGED parseVars
    \/ videoIdProp # "" /\ ProgressTick /\ UNCHANGED parseVars
    \/ PollOnceAnswer /\ UNCHANGED parseVars
    \/ PollLatestAnswer /\ UNCHANGED parseVars
    \/ InitLatestAnswer /\ UNCHANGED parseVars
    \/ StatusAnswer /\ UNCHANGED parseVars
    \/ InitOnceAnswer /\ UNCHANGED parseVars
    \/ ConsoleFetchAnswer /\ UNCHANGED parseVars
    \/ SwitchJob /\ UNCHANGED parseVars
    \/ Teardown /\ UNCHANGED parseVars
    \/ StaleAnswer /\ UNCHANGED parseVars

SwitchSpec == SwitchInit /\ [][SwitchNext]_vars

----------------------------------------------------------------------------
(* Claims about the pipeline orchestrator *)

\* the steps of the handler after the job was marked processing
PipelinePcs == {"download", "uploadStart", "uploadTransfer", "generate", "save", "finalize"}

\* invocation i returns its response in this step
Returns(i) == inv[i].pc # "done" /\ inv'[i].pc = "done"

\* C1: an invocation that has resolved its job and passed the mark-processing
\* step returns only with the job's stored status completed or failed,
\* whatever the outcome of its steps, the status write included.
C1_NeverLeftProcessing ==
    [][\A i \in Invs :
        (inv[i].pc \in PipelinePcs /\ Returns(i))
            => jobs'[inv[i].vid].status \in Terminal]_vars

C3_OneAnalysisPerJob ==
    \A r1, r2 \in analyses : r1.video_id = r2.video_id => r1 = r2

\* two invocations have both persisted an analysis for the same job
C3_Witness ==
    \E i, j \in Invs :
        /\ i # j
        /\ inv[i].vid = inv[j].vid
        /\ inv[i].pc = "done" /\ inv[i].resp = 200
        /\ inv[j].pc = "finalize"
        /\ Cardinality({r \in analyses : r.video_id = inv[i].vid}) = 1

\* C9: an invocation that fails at a stage returns with the job stored as
\* failed and with the error message of that stage.
C9_FailureNamesStage ==
    [][\A i \in Invs :
        (inv[i].pc \in PipelinePcs /\ Returns(i) /\ inv'[i].resp # 200)
            => /\ jobs'[inv[i].vid].status = "failed"
               /\ jobs'[inv[i].vid].error_message = FailMessage(inv[i].pc)]_vars

\* C10: an invocation whose job does not exist or has no storage path
\* answers 404 in its resolve step, and every 404 leaves both tables as they
\* were.
C10_NotFoundWritesNothing ==
    [][\A i \in Invs :
        /\ (inv[i].pc = "resolve" /\ inv'[i] # inv[i]
            /\ (~jobs[inv[i].vid].present \/ jobs[inv[i].vid].storage_path = ""))
                => inv'[i].pc = "done" /\ inv'[i].resp = 404
        /\ (Returns(i) /\ inv'[i].resp = 404)
                => jobs' = jobs /\ analyses' = analyses]_vars

\* an invocation for a job id without a row has answered 404, and one for a
\* row without storage path has
C10_Witness ==
    \E i \in Invs :
        /\ inv[i].pc = "done" /\ inv[i].resp = 404
        /\ ~jobs[inv[i].vid].present \/ jobs[inv[i].vid].storage_path = ""

----------------------------------------------------------------------------
(* Claims about the pipeline orchestrator, continued *)

\* C11: an invocation whose body is not parseable JSON, or carries neither
\* record.id nor video_id, answers 400 in its parsing step, before the first
\* read of the store; every 400 is answered there and leaves both tables as
\* they were.
C11_BadBodyTouchesNothing ==
    [][\A i \in Invs :
        /\ (inv[i].pc = "parse" /\ inv[i].body.kind \in {"invalid", "none"}
                /\ inv'[i] # inv[i])
            => inv'[i].pc = "done" /\ inv'[i].resp = 400 /\ inv'[i].vid = ""
        /\ (Returns(i) /\ inv'[i].resp = 400)
            => /\ inv[i].pc = "parse"
               /\ inv[i].body.kind \in {"invalid", "none"}
               /\ jobs' = jobs /\ analyses' = analyses]_vars

\* one invocation has answered 400 without a job id while another is in the
\* middle of its pipeline
C11_Witness ==
    \E i, j \in Invs :
        /\ inv[i].pc = "done" /\ inv[i].resp = 400 /\ inv[i].vid = ""
        /\ inv[j].pc = "generate"

\* the analysis rows of job v
RowsOf(v) == {r \in analyses : r.video_id = v}

\* invocation j runs for a job for which invocation i has answered 200
Reinvokes(j, i) ==
    /\ i # j
    /\ inv[i].pc = "done" /\ inv[i].resp = 200
    /\ inv[j].vid = inv[i].vid

C14_ErrorMessageOnlyWhenFailed ==
    \A v \in VideoIds : jobs[v].error_message # "" => jobs[v].status = "failed"

\* C20: the response status follows from the step at which the invocation
\* returns: 200 exactly when it returns from its last step with the job stored
\* as completed, 400 exactly for a body that is unparseable or without id, 404
\* exactly from the resolve step, 502 exactly from generation and parsing, and
\* 500 from download, upload negotiation, upload transfer and persistence.
C20_ResponseFollowsStep ==
    [][\A i \in Invs : Returns(i) =>
        /\ inv'[i].resp = 200
            <=> (inv[i].pc = "finalize" /\ jobs'[inv[i].vid].status = "completed")
        /\ inv'[i].resp = 400
            <=> (inv[i].pc = "parse" /\ inv[i].body.kind \in {"invalid", "none"})
        /\ inv'[i].resp = 404 <=> inv[i].pc = "resolve"
        /\ inv'[i].resp = 502 <=> inv[i].pc = "generate"
        /\ inv[i].pc \in {"download", "uploadStart", "uploadTransfer", "save"}
            => inv'[i].resp = 500]_vars

----------------------------------------------------------------------------
(* Claims about the status synchronization client *)

\* the client displays the analysis record of the requested job
OwnShown(u) == u.internalPayload # Null /\ u.internalPayload.video_id = videoIdProp

\* C4: whenever the client shows the requested job's record, the poll
\* interval is cancelled and both push subscriptions are removed.
C4_ReadyCancelsAll ==
    OwnShown(ui) => ~pollRef /\ ~channelAnalysis /\ ~channelVideo

\* C5: once the client shows the requested job's record, no later pull result
\* carrying a record is applied to the client's state again.
C5_ReadyAppliedOnce ==
    [][OwnShown(ui) =>
        /\ inflight' # Answer(inflight, "pollOnce")
        /\ inflight' # Answer(inflight, "initOnce")]_vars

\* C6: with no change of the store since the subscription started, once the
\* client is in the timeout error state the poll interval, the early-poll
\* timer, the progress timer and both subscriptions are cancelled.
C6_TimeoutCancelsAll ==
    (ui.error = TimeoutMsg /\ events = {})
        => /\ ~pollRef /\ ~earlyPollTimer /\ ~ProgressTimer(ui)
           /\ ~channelAnalysis /\ ~channelVideo

\* C7: while the client is in the failed state and shows no record, no step
\* issues a poll request.
C7_FailedStopsPolling ==
    [][View(ui) = "failed" => inflight'["pollOnce"] <= inflight["pollOnce"]]_vars

\* a poll round ends in this step: its fallback adopts a record, or its status
\* read is answered
RoundEnds ==
    \/ inflight' = Answer(inflight, "pollLatest")
    \/ inflight' = Answer(inflight, "pollStatus")

\* C15: once the client shows the requested job's record, no step replaces it
\* by another job's record.
C15_FallbackNeverReplacesReady ==
    [][OwnShown(ui) => OwnShown(ui')]_vars

\* the client displays a record of another job than the requested one
ForeignShown(u) == u.internalPayload # Null /\ u.internalPayload.video_id # videoIdProp

C17_EventuallySettles ==
    <>[](View(ui) \in {"ready", "failed", "error"})

\* the client shows neither a record nor the failed state
Unsettled(u) == Payload(u) = Null /\ u.videoStatus # "failed"

\* C18: a pull answered with a bad-request error leaves the error state and
\* the poll interval as they were, for the pull of the effect body and for
\* the pull of a poll round, and the round goes on to the fallback.
C18_BadRequestIsSoft ==
    [][/\ InitOnceResult("badRequest")
            => /\ ui'.error = ui.error /\ pollRef' = pollRef
               /\ inflight' = Issue(Answer(inflight, "initOnce"), "initLatest")
       /\ PollOnceResult("badRequest")
            => /\ ui' = ui /\ pollRef' = pollRef
               /\ inflight' = Issue(Answer(inflight, "pollOnce"), "pollLatest")]_vars

\* with the record of the requested job stored before the mount and no store
\* change since, the pull of the effect body has been answered and applied no
\* record, and no error is set: it failed with a bad request; the interval
\* still runs
C18_Witness ==
    /\ payloadProp = Undefined
    /\ events = {}
    /\ RowOf(analyses, videoIdProp) # Null
    /\ inflight["initOnce"] = 0
    /\ ui.internalPayload = Null
    /\ ui.error = NoError
    /\ pollRef

\* C19: a pull answered with a hard error or an exception puts the client in
\* the error view and clears the poll interval, for the pull of the effect
\* body and for the pull of a poll round.
C19_HardErrorStopsPolling ==
    [][\A res \in {"error", "exception"} :
        ((InitOnceResult(res) \/ PollOnceResult(res)) /\ Unsettled(ui))
            => View(ui') = "error" /\ ~pollRef']_vars

----------------------------------------------------------------------------
(* Claims about the parsing of the inference response *)

\* the text holds a fenced block: an opening fence and a closing one
HasFencedBlock(text) ==
    \E i, j \in 1..Len(text) : i < j /\ text[i] = Fence /\ text[j] = Fence

\* the interior of the first fenced block, without its language tag
FirstBlockInterior(text) ==
    LET i == CHOOSE n \in 1..Len(text) :
                text[n] = Fence /\ \A k \in 1..(n - 1) : text[k] # Fence
        j == CHOOSE n \in (i + 1)..Len(text) :
                text[n] = Fence /\ \A k \in (i + 1)..(n - 1) : text[k] # Fence
        interior == SubSeq(text, i + 1, j - 1)
    IN IF interior # <<>> /\ interior[1] = "json" THEN Tail(interior) ELSE interior

\* an opening brace occurs before the last closing brace
BraceBeforeLastBrace(text) ==
    \E i, j \in 1..Len(text) : i < j /\ text[i] = "{" /\ text[j] = "}"

\* the text from its first opening brace through its last closing brace
FirstToLastBrace(text) ==
    SubSeq(text,
           CHOOSE n \in 1..Len(text) : text[n] = "{" /\ \A k \in 1..(n - 1) : text[k] # "{",
           CHOOSE n \in 1..Len(text) : text[n] = "}" /\ \A k \in (n + 1)..Len(text) : text[k] # "}")

\* the candidate follows the fixed order: fenced block, braces, whole text
ExtractionOrder ==
    parsePc # "text" =>
        jsonStr = IF HasFencedBlock(responseText)
                    THEN trim(FirstBlockInterior(responseText))
                  ELSE IF BraceBeforeLastBrace(responseText)
                    THEN FirstToLastBrace(responseText)
                  ELSE responseText

\* a well-formed object, from its opening brace to its closing brace
ObjectText(text) ==
    /\ text # <<>>
    /\ text[1] = "{" /\ text[Len(text)] = "}"
    /\ JSONparse(text) # {}

\* a text that holds no object
HoldsNoObject(text) ==
    \A i, j \in 1..Len(text) : ~ObjectText(SubSeq(text, i, j))

\* a text with no brace and no fence in it
PlainProse(text) == \A n \in 1..Len(text) : text[n] \notin {"{", "}", Fence}

\* the ways of reading the response as a text before, an object, a text after
Readings ==
    {r \in (0..Len(responseText)) \X (0..Len(responseText)) :
        r[1] < r[2] /\ ObjectText(SubSeq(responseText, r[1] + 1, r[2]))}

Before(r) == SubSeq(responseText, 1, r[1])
Object(r) == SubSeq(responseText, r[1] + 1, r[2])
After(r) == SubSeq(responseText, r[2] + 1, Len(responseText))

\* C21 as stated: the candidate follows the fixed order (the interior of the
\* first fenced block, else the slice from the first opening brace through
\* the last closing brace, else the whole text), and whatever text that is not
\* itself an object stands before or after an object, the object is what is
\* extracted.
C21_ProseNeverChangesObject ==
    /\ ExtractionOrder
    /\ parsePc # "text" =>
        \A r \in Readings :
            HoldsNoObject(Before(r)) /\ HoldsNoObject(After(r)) => jsonStr = Object(r)

\* C21 amended: the candidate follows the fixed order, and prose before or
\* after an object does not change the extracted object when that prose holds
\* no brace and no fence; around a fenced object, when no fence precedes the
\* block.
C21_PlainProseNeverChangesObject ==
    /\ ExtractionOrder
    /\ parsePc # "text" =>
        \A r \in Readings :
            /\ PlainProse(Before(r)) /\ PlainProse(After(r)) => jsonStr = Object(r)
            /\ \A p \in 0..r[1] :
                 /\ PlainProse(SubSeq(responseText, 1, p))
                 /\ SubSeq(responseText, p + 1, r[1]) \in {<<Fence>>, <<Fence, "json">>}
                 /\ After(r) # <<>> /\ After(r)[1] = Fence
                 => jsonStr = Object(r)

\* the object has been extracted from between a word of prose before it and
\* one after it
C21_Witness ==
    /\ parsePc = "extracted"
    /\ responseText = <<"a", "{", "members", "}", "a">>
    /\ jsonStr = <<"{", "members", "}">>

\* the raw key_insights array of the parsed object
RawKeyInsights == parsedJson["key_insights"].items

ArrayFields == AnalysisFields \ {"summary"}

C24_PersistedWithinRanges ==
    parsePc = "assigned" =>
        /\ \A n \in 1..Len(analysisOut["key_insights"]) :
             analysisOut["key_insights"][n].importance \in 1..10
        /\ \A n \in 1..Len(analysisOut["timeline_data"]) :
             /\ analysisOut["timeline_data"][n].position \in 0..100
             /\ analysisOut["timeline_data"][n].type \in {"primary", "warning", "accent"}

----------------------------------------------------------------------------
(* Claims about concurrent invocations of the orchestrator *)

\* invocation j has run the pipeline for the job of invocation i and returned
RanPipelineFor(j, i) ==
    /\ i # j
    /\ inv[j].pc = "done" /\ inv[j].resp \in {200, 500, 502}
    /\ inv[j].vid = inv[i].vid

\* C25: when the second of two invocations that ran the pipeline for the same
\* job returns, in whatever order their steps were taken, the job's stored
\* status is completed or failed, and it is the status of the last status
\* write, the one this invocation makes as it returns: completed with its 200,
\* failed with its failure.
C25_BothReturnedLastWriteWins ==
    [][\A i, j \in Invs :
        (inv[i].pc \in PipelinePcs /\ Returns(i) /\ RanPipelineFor(j, i))
            => /\ jobs'[inv[i].vid].status \in Terminal
               /\ jobs'[inv[i].vid].status =
                    IF inv'[i].resp = 200 THEN "completed" ELSE "failed"]_vars

\* C26: a job's status becomes completed only by the final write of an
\* invocation for that job, which it reaches only after its own upsert of the
\* analysis has succeeded; so in every reachable state, with re-invocations
\* and concurrent invocations, a job whose status is completed has an
\* analysis record.
C26_CompletedHasAnalysis ==
    /\ [](\A v \in VideoIds : jobs[v].status = "completed" => RowsOf(v) # {})
    /\ [][\A v \in VideoIds :
            (jobs[v].status # "completed" /\ jobs'[v].status = "completed")
                => \E i \in Invs :
                    /\ inv[i].pc = "finalize" /\ inv[i].vid = v /\ Returns(i)
                    /\ RowsOf(v) # {}]_vars
    /\ [][\A i \in Invs :
            inv'[i].pc = "finalize" /\ inv[i].pc # "finalize"
                => /\ inv[i].pc = "save"
                   /\ \E r \in analyses' : r.video_id = inv[i].vid /\ r.data = inv[i].data]_vars

\* a job is completed and has its analysis record while a second invocation
\* for the same job is in the middle of the pipeline
C26_Witness ==
    /\ jobs["a"].status = "completed"
    /\ RowsOf("a") # {}
    /\ \E i, j \in Invs :
        /\ i # j
        /\ inv[i].pc = "done" /\ inv[i].resp = 200 /\ inv[i].vid = "a"
        /\ inv[j].pc \in PipelinePcs /\ inv[j].vid = "a"

----------------------------------------------------------------------------
(* Claims about the status synchronization client, continued *)

\* C27: once the client shows a final view (ready, failed or error), every
\* later step leaves it in that view, and in the ready view with the same
\* record: no push delivery, poll result, fallback result or timer callback
\* moves it to another view or to another record.
C27_FinalViewIsStable ==
    [][View(ui) \in {"ready", "failed", "error"}
        => /\ View(ui') = View(ui)
           /\ View(ui) = "ready" => Payload(ui') = Payload(ui)]_vars

\* C28: once the client is ready or failed, the timeout acts no more: no step
\* taken as the timeout elapses or after it sets the timeout error.
C28_TimeoutAfterTerminalChangesNothing ==
    [][(View(ui) \in {"ready", "failed"} /\ (overTime \/ overTime')) =>
        (ui'.error = TimeoutMsg => ui.error = TimeoutMsg)]_vars

----------------------------------------------------------------------------
(* Claims about the change of job id and the teardown of the client *)

\* a request of the superseded session is answered in this step
StaleAnswered ==
    /\ videoIdProp' = SwitchTo
    /\ \E op \in StaleOps : inflight'[op] < inflight[op]

\* C29: on teardown the poll interval, the early-poll timer and both
\* subscriptions are cancelled and nothing stays in flight; and after a change
\* of job id no answer to a request of the previous session modifies the
\* client's state: the displayed state, the payload and the poll interval
\* stay as they are.
C29_PreviousSessionIsSilenced ==
    [][/\ videoIdProp' = ""
            => /\ ~pollRef' /\ ~earlyPollTimer'
               /\ ~channelAnalysis' /\ ~channelVideo'
               /\ inflight' = NoRequests
       /\ StaleAnswered
            => ui' = ui /\ payloadProp' = payloadProp /\ pollRef' = pollRef]_vars

\* C30: the step that starts the client on a new job id sets all local state
\* to its initial value (no payload, no error, pending, progress step 0, no
\* fallback tag, status processing); and in the new session nothing observed
\* for the previous job id is visible: a record of the previous job is
\* displayed only as the fallback of the new session, under the fallback tag
\* that names it.
C30_NewSessionStartsClean ==
    /\ [][(videoIdProp' # videoIdProp /\ videoIdProp' # "")
            => ui' = InitialUi /\ View(ui') = "pending"]_vars
    /\ [](videoIdProp = SwitchTo
            => ((Payload(ui) # Null /\ Payload(ui).video_id = SwitchFrom)
                    => payloadProp = Undefined /\ ui.fallbackVideoId = SwitchFrom))

----------------------------------------------------------------------------
(* Claims about the steps of one orchestrator invocation *)

\* the steps of the handler in the order of its text
StepOrder ==
    <<"idle", "parse", "resolve", "mark", "download", "uploadStart", "uploadTransfer",
      "generate", "save", "finalize", "done">>

StepIndex(pc) == CHOOSE n \in 1..Len(StepOrder) : StepOrder[n] = pc

\* the steps that make an external call
ExternalCalls == {"download", "uploadStart", "uploadTransfer", "generate", "save"}

\* C31: within one invocation each external call is attempted at most once,
\* and the first failure ends the pipeline. Every step of an invocation leaves
\* its place in the handler, either to the step that follows it or to the
\* return; a step that does not go on to the next one returns a failure
\* response; an invocation that has returned takes no further step, so no
\* transfer, generation or upsert follows a failed step.
C31_SingleAttemptNoStepAfterFailure ==
    [][\A i \in Invs : inv'[i] # inv[i] =>
        /\ inv[i].pc # "done"
        /\ \/ StepIndex(inv'[i].pc) = StepIndex(inv[i].pc) + 1
           \/ Returns(i)
        /\ (inv[i].pc \in ExternalCalls /\ Returns(i))
            => /\ inv'[i].resp \in {500, 502}
               /\ analyses' = analyses]_vars

\* an invocation has returned 500 from a failed upload negotiation: the job
\* carries that stage's message and no analysis was written
C31_Witness ==
    \E i \in Invs :
        /\ inv[i].pc = "done" /\ inv[i].resp = 500
        /\ inv[i].vid \in VideoIds
        /\ jobs[inv[i].vid].error_message = FailMessage("uploadStart")
        /\ RowsOf(inv[i].vid) = {}

\* the steps between the write of processing and the persist step
MiddleSteps == {"download", "uploadStart", "uploadTransfer", "generate"}

\* C32: a fetch-binary, upload or generate/parse step that succeeds changes
\* neither the job table nor the analysis table; such a step changes the store
\* only when it fails, and then only the job's status and message, by the
\* write of failed.
C32_MiddleStepsWriteOnlyOnFailure ==
    [][\A i \in Invs : (inv[i].pc \in MiddleSteps /\ inv'[i] # inv[i]) =>
        IF Returns(i)
        THEN /\ analyses' = analyses
             /\ jobs' \in {jobs, [jobs EXCEPT ![inv[i].vid].status = "failed",
                                              ![inv[i].vid].error_message =
                                                    jobs'[inv[i].vid].error_message]}
        ELSE jobs' = jobs /\ analyses' = analyses]_vars

\* an invocation has passed the download, the upload and the generation and
\* stands before its persist step: the job is still processing, with no
\* message, and no analysis exists
C32_Witness ==
    \E i \in Invs :
        /\ inv[i].pc = "save"
        /\ jobs[inv[i].vid].status = "processing"
        /\ jobs[inv[i].vid].error_message = ""
        /\ analyses = {}

\* C33: whatever made the generation step fail (a response that is not ok, an
\* empty text, a text that does not parse), the job record it leaves is the
\* same: status failed with the fixed message of the stage, nothing else of
\* the store changed.
C33_GenerateFailureRecordIsFixed ==
    [][\A i \in Invs : (inv[i].pc = "generate" /\ Returns(i)) =>
        /\ jobs' = [jobs EXCEPT ![inv[i].vid].status = "failed",
                                ![inv[i].vid].error_message = "Gemini analysis failed"]
        /\ analyses' = analyses]_vars

----------------------------------------------------------------------------
(* Claims about the status synchronization client: order of the final writes,
   progress counter, substitution tag, payload prop *)

\* the client's own by-id pull is answered with the record of its job: the
\* request ends without the fallback being issued
OwnRecordPulled ==
    \/ inflight' = Answer(inflight, "pollOnce")
    \/ inflight' = Answer(inflight, "initOnce")

\* C34: the client tolerates either order of the two final writes. A pending
\* client that observes the status completed, by a push or by a status read,
\* stays pending with its poll interval running and no error; and a client
\* whose observed status is still processing and whose by-id pull is answered
\* with the record of its job displays that record: it is ready.
C34_EitherOrderOfFinalWrites ==
    [][/\ (View(ui) = "pending" /\ ui'.videoStatus = "completed"
                /\ ui.videoStatus # "completed")
            => /\ View(ui') = "pending"
               /\ pollRef /\ pollRef'
               /\ ui'.error = NoError
       /\ (ui.videoStatus = "processing" /\ OwnRecordPulled)
            => View(ui') = "ready" /\ OwnShown(ui')]_vars

\* the client has observed the status completed before any record: it is
\* pending, without error, and its poll interval is running
C34_Witness ==
    /\ ui.videoStatus = "completed"
    /\ jobs[videoIdProp].status = "completed"
    /\ View(ui) = "pending"
    /\ ui.error = NoError
    /\ pollRef

\* C35: the progress-step counter stays within 0..2 and changes only by
\* advancing one step, only while the client is pending; the step that
\* advances it changes nothing else of the client: no view, no timer, no
\* channel, no request.
C35_ProgressOnlyWhilePending ==
    /\ [](ui.progressStep \in 0..2)
    /\ [][ui'.progressStep # ui.progressStep
            => /\ ui'.progressStep = ui.progressStep + 1
               /\ View(ui) = "pending"
               /\ ui' = [ui EXCEPT !.progressStep = @ + 1]
               /\ UNCHANGED <<pollRef, earlyPollTimer, channelAnalysis, channelVideo,
                              inflight, payloadProp, overTime>>]_vars

\* C36: whenever the record the client displays is the record of the
\* requested job, no substitution tag is set.
C36_OwnRecordIsUntagged ==
    (payloadProp = Undefined /\ OwnShown(ui)) => ui.fallbackVideoId = ""

\* the requests AnalysisView issues itself
OwnOps == Ops \ {"consoleFetch", "staleConsoleFetch"}

\* C37: while AnalysisView has a payload prop (null included) it has no
\* subscription, no poll interval, no early-poll timer and no request of its
\* own, and it displays exactly the prop; the prop changes only by the answer
\* to the wrapper's one fetch or by a push on the wrapper's subscription for
\* the job, and the wrapper issues no further request.
C37_PayloadPropIsTheOnlySource ==
    /\ [](payloadProp # Undefined
            => /\ ~channelAnalysis /\ ~channelVideo /\ ~pollRef /\ ~earlyPollTimer
               /\ \A op \in OwnOps : inflight[op] = 0
               /\ Payload(ui) = payloadProp
               /\ ui.internalPayload = Null)
    /\ [][payloadProp # Undefined
            => /\ inflight'["consoleFetch"] <= inflight["consoleFetch"]
               /\ payloadProp' # payloadProp
                    => \/ inflight' = Answer(inflight, "consoleFetch")
                       \/ \E e \in events :
                            /\ e.table = "video_analyses" /\ e.id = videoIdProp
                            /\ payloadProp' = rowToPayload([video_id |-> e.id, data |-> e.val])]_vars

\* the wrapper has received the record of the job and the client displays it,
\* with no timer, no channel and no request of AnalysisView
C37_Witness ==
    /\ payloadProp # Undefined /\ payloadProp # Null
    /\ payloadProp.video_id = videoIdProp
    /\ View(ui) = "ready"
    /\ ui.internalPayload = Null
    /\ inflight = NoRequests

\* C38: an invocation with a job id in its body either answers 500 in its
\* parsing step, for the missing inference key, or goes on to fetch the job;
\* the 500 of the parsing step is answered before any access to the store,
\* carries no job id and leaves every job record and analysis record as it
\* was; every other 500 is answered by a later step, for a resolved job.
C38_MissingKeyTouchesNothing ==
    [][\A i \in Invs :
        /\ (inv[i].pc = "parse" /\ inv[i].body.kind \in {"record", "video_id"}
                /\ inv'[i] # inv[i])
            => \/ inv'[i].pc = "done" /\ inv'[i].resp = 500 /\ inv'[i].vid = ""
               \/ inv'[i].pc = "resolve" /\ inv'[i].vid = inv[i].body.id
        /\ (inv[i].pc = "parse" /\ Returns(i) /\ inv'[i].resp = 500)
            => /\ inv[i].body.kind \in {"record", "video_id"}
               /\ jobs' = jobs /\ analyses' = analyses
        /\ (Returns(i) /\ inv'[i].resp = 500 /\ inv[i].pc # "parse")
            => inv[i].vid \in VideoIds]_vars

\* an invocation has answered 500 without a job id and no invocation has
\* fetched a job: the job record is as VideoUpload inserted it, no analysis is
\* stored
C38_Witness ==
    /\ \E i \in Invs : inv[i].pc = "done" /\ inv[i].resp = 500 /\ inv[i].vid = ""
    /\ \A i \in Invs : inv[i].vid = "" /\ inv[i].pc \in {"idle", "parse", "done"}
    /\ jobs["a"] = InsertedRow("p")
    /\ analyses = {}

====
